---------------------------- MODULE Spec2Model ----------------------------
(***************************************************************************)
(* A model of go-critbit: the binary Key (key.go), the crit-bit Tree       *)
(* (tree.go) and the Scanner.  Go values are modelled as follows.          *)
(*   - a byte is a number in 0..255; Data is a sequence of bytes, indexed  *)
(*     from 0 in Go and from 1 here (Data[off] is ByteAt(Data, off));      *)
(*   - *Leaf and *Inner are addresses into the heaps `leaves' and          *)
(*     `inners'; the nil pointer is address 0;                             *)
(*   - a *Node is a slot: the root field of the tree or one child cell of  *)
(*     an Inner;                                                           *)
(*   - an index out of range is Go's run-time panic: the operation is      *)
(*     abandoned where it stands and `panicked' is set.                    *)
(***************************************************************************)
EXTENDS Integers, Sequences, FiniteSets, TLC

VARIABLES
    wide,       \* the specification draws arbitrary valid keys, not only well-formed ones
    root,       \* Tree.root: a Node
    nums,       \* Tree.nums
    inners,     \* heap of Inner objects: address -> [bit, child]
    leaves,     \* heap of Leaf objects:  address -> [Key, Value]
    panicked,   \* a run-time panic left the last call unfinished
    shadow,     \* history: the set of <<key, value>> a plain map would hold
    last,       \* history: the last call, its arguments and its result
    ka, kb,     \* inputs of the Key functions (specification SpecKey)
    kres,       \* the result of the last Key function applied to ka, kb
    scan        \* the Scanner of the run, if one was made, and what it has yielded

vars == <<wide, root, nums, inners, leaves, panicked, shadow, last, ka, kb, kres, scan>>

treeVars == <<root, nums, inners, leaves>>

keyVars == <<wide, ka, kb, kres>>

-----------------------------------------------------------------------------
(* Bounds *)

\* longest key, in bits, the tree specifications draw
MaxBits == 2

\* the tree specifications stop inserting at this many leaves
MaxLeaves == 3

\* longest key, in bits, the Key specification draws
MaxKeyBits == 10

\* the specification of arbitrary valid keys stops inserting at this many leaves
MaxLeavesAny == 2

\* the values stored: opaque to the code
Values == {1, 2}

\* the zero value of V
ZeroV == 0

-----------------------------------------------------------------------------
(* Bytes *)

Pow2(n) == 2 ^ n

\* bit i of byte x, i = 0 the most significant
BitOf(x, i) == (x \div Pow2(7 - i)) % 2

FromBits(f) ==
    f[0] * 128 + f[1] * 64 + f[2] * 32 + f[3] * 16
        + f[4] * 8 + f[5] * 4 + f[6] * 2 + f[7]

\* x ^ y on bytes, tabulated
XorTable ==
    [x \in 0..255 |-> [y \in 0..255 |->
        FromBits([i \in 0..7 |-> IF BitOf(x, i) = BitOf(y, i) THEN 0 ELSE 1])]]

Xor8(x, y) == XorTable[x][y]

\* x & y on bytes, tabulated
AndTable ==
    [x \in 0..255 |-> [y \in 0..255 |->
        FromBits([i \in 0..7 |-> BitOf(x, i) * BitOf(y, i)])]]

And8(x, y) == AndTable[x][y]

\* ^byte(0) << n, truncated to a byte
HighMask(n) == (255 * Pow2(n)) % 256

\* bits.LeadingZeros8
LeadingZeros8(d) ==
    IF d = 0 THEN 8
    ELSE CHOOSE i \in 0..7 : BitOf(d, i) = 1 /\ \A j \in 0..7 : j < i => BitOf(d, j) = 0

Min(x, y) == IF x < y THEN x ELSE y

-----------------------------------------------------------------------------
(* Key (key.go) *)

BitsKey(b, nbits) == [Data |-> b, Nbits |-> nbits]

\* Go's Data[i]; the caller checks InRange first
ByteAt(data, i) == data[i + 1]

InRange(data, i) == i >= 0 /\ i < Len(data)

\* the Binary Key invariant of the data model
ValidKey(k) == k.Nbits >= 0 /\ k.Nbits <= 8 * Len(k.Data)

\* (n + 7) >> 3
CeilBytes(n) == (n + 7) \div 8

\* the constructors' convention: exactly the bytes needed, padding bits zero
WellFormed(k) ==
    /\ k.Nbits >= 0
    /\ Len(k.Data) = CeilBytes(k.Nbits)
    /\ k.Nbits % 8 # 0 =>
           And8(ByteAt(k.Data, k.Nbits \div 8), HighMask(8 - (k.Nbits % 8)))
               = ByteAt(k.Data, k.Nbits \div 8)

\* bytes.Equal
BytesEqual(x, y) == x = y

Equal(k, b) ==
    IF k.Nbits # b.Nbits THEN FALSE
    ELSE BytesEqual(k.Data, b.Data)

\* Critbit's "keys are identical" result
Identical == -1

\* the result standing for the run-time panic of an index out of range
IndexPanic == -2

\* off<<4 | msbbit<<1 | 1
DataDiff(off, msbbit) == off * 16 + msbbit * 2 + 1

\* nbits << 1
LengthDiff(nbits) == nbits * 2

\* which key's partial byte length Critbit masks with
CritbitModSameOff(k, b) == b.Nbits % 8

\* "keys are identical in data, check lengths"
CritbitLengths(k, b) ==
    IF k.Nbits = b.Nbits THEN Identical
    ELSE IF k.Nbits < b.Nbits THEN LengthDiff(k.Nbits)
    ELSE LengthDiff(b.Nbits)

\* "compare partial byte if needed"
CritbitPartial(k, b, off, mod) ==
    IF mod > 0
    THEN IF ~InRange(k.Data, off) \/ ~InRange(b.Data, off) THEN IndexPanic
         ELSE LET d == And8(Xor8(ByteAt(k.Data, off), ByteAt(b.Data, off)),
                            HighMask(8 - mod))
              IN  IF d # 0 THEN DataDiff(off, LeadingZeros8(d))
                  ELSE CritbitLengths(k, b)
    ELSE CritbitLengths(k, b)

RECURSIVE CritbitFull(_, _, _, _, _)
\* "compare full bytes": the loop from off to moff
CritbitFull(k, b, off, moff, mod) ==
    IF off < moff
    THEN IF ~InRange(k.Data, off) \/ ~InRange(b.Data, off) THEN IndexPanic
         ELSE LET d == Xor8(ByteAt(k.Data, off), ByteAt(b.Data, off))
              IN  IF d # 0 THEN DataDiff(off, LeadingZeros8(d))
                  ELSE CritbitFull(k, b, off + 1, moff, mod)
    ELSE CritbitPartial(k, b, off, mod)

Critbit(k, b) ==
    LET koff == k.Nbits \div 8
        boff == b.Nbits \div 8
        moff == IF koff < boff THEN koff ELSE boff
        mod  == IF koff < boff THEN k.Nbits % 8 ELSE CritbitModSameOff(k, b)
    IN  CritbitFull(k, b, 0, moff, mod)

\* a Direction without the length-based part: the bit of the data, or 0
DirectionDataOnly(k, bit) ==
    LET koff == CeilBytes(k.Nbits)
        cbit == bit \div 2
        coff == cbit \div 8
    IN  IF coff < koff /\ InRange(k.Data, coff)
           /\ BitOf(ByteAt(k.Data, coff), cbit % 8) # 0
        THEN 1
        ELSE 0

\* Direction indexes Data out of range
DirectionPanics(k, bit) ==
    LET koff == CeilBytes(k.Nbits)
        coff == (bit \div 2) \div 8
    IN  coff < koff /\ ~InRange(k.Data, coff)

Direction(k, bit) ==
    LET koff == CeilBytes(k.Nbits)
        cbit == bit \div 2
        coff == cbit \div 8
    IN  IF coff < koff /\ InRange(k.Data, coff)
           /\ BitOf(ByteAt(k.Data, coff), cbit % 8) # 0
        THEN 1
        ELSE IF bit % 2 # 0 THEN 0
        ELSE IF cbit < k.Nbits THEN 1
        ELSE 0

\* HasPrefix indexes Data out of range
HasPrefixPanics(k, p) ==
    /\ k.Nbits >= p.Nbits
    /\ \E off \in 0..(p.Nbits \div 8) :
          /\ off < p.Nbits \div 8 \/ p.Nbits % 8 > 0
          /\ ~InRange(k.Data, off) \/ ~InRange(p.Data, off)
          /\ \A o \in 0..(off - 1) :
                InRange(k.Data, o) /\ InRange(p.Data, o)
                    /\ ByteAt(k.Data, o) = ByteAt(p.Data, o)

RECURSIVE HasPrefixFullNoMask(_, _, _, _)
\* a HasPrefix that compares the whole of the partial byte
HasPrefixFullNoMask(k, p, off, n) ==
    IF off < n
    THEN IF ~InRange(k.Data, off) \/ ~InRange(p.Data, off) THEN FALSE
         ELSE IF ByteAt(k.Data, off) # ByteAt(p.Data, off) THEN FALSE
         ELSE HasPrefixFullNoMask(k, p, off + 1, n)
    ELSE LET mod == p.Nbits % 8
         IN  IF mod > 0
             THEN IF ~InRange(k.Data, off) \/ ~InRange(p.Data, off) THEN FALSE
                  ELSE Xor8(ByteAt(k.Data, off), ByteAt(p.Data, off)) = 0
             ELSE TRUE

RECURSIVE HasPrefixFull(_, _, _, _)
HasPrefixFull(k, p, off, n) ==
    IF off < n
    THEN IF ~InRange(k.Data, off) \/ ~InRange(p.Data, off) THEN FALSE
         ELSE IF ByteAt(k.Data, off) # ByteAt(p.Data, off) THEN FALSE
         ELSE HasPrefixFull(k, p, off + 1, n)
    ELSE LET mod == p.Nbits % 8
         IN  IF mod > 0
             THEN IF ~InRange(k.Data, off) \/ ~InRange(p.Data, off) THEN FALSE
                  ELSE And8(Xor8(ByteAt(k.Data, off), ByteAt(p.Data, off)),
                            HighMask(8 - mod)) = 0
             ELSE TRUE

HasPrefix(k, p) ==
    IF k.Nbits < p.Nbits THEN FALSE
    ELSE HasPrefixFull(k, p, 0, p.Nbits \div 8)

-----------------------------------------------------------------------------
(* Node, Leaf, Inner (tree.go) *)

Nil == 0

\* the zero Node: Node[V]{}
EmptyNode == [Leaf |-> Nil, Inner |-> Nil]

LeafNode(l) == [Leaf |-> l, Inner |-> Nil]

InnerNode(i) == [Leaf |-> Nil, Inner |-> i]

\* &t.root
RootSlot == [inner |-> Nil, dir |-> 0]

\* &inner.child[dir]
ChildSlot(i, dir) == [inner |-> i, dir |-> dir]

\* inner.child[dir]
Child(inn, i, dir) == inn[i].child[dir + 1]

\* *slot
Deref(rt, inn, slot) ==
    IF slot.inner = Nil THEN rt ELSE Child(inn, slot.inner, slot.dir)

\* the root after *slot = node
StoreRoot(rt, slot, node) == IF slot.inner = Nil THEN node ELSE rt

\* the Inner heap after *slot = node
StoreInners(inn, slot, node) ==
    IF slot.inner = Nil THEN inn
    ELSE [inn EXCEPT ![slot.inner].child[slot.dir + 1] = node]

\* a fresh address of a heap: new(T)
NewAddr(heap) == Len(heap) + 1

\* the heap with the new object at address a = NewAddr(heap)
Alloc(heap, a, obj) == Append(heap, obj)

RECURSIVE ReachInners(_, _)
\* the Inner objects reachable from node n
ReachInners(inn, n) ==
    IF n.Inner = Nil THEN {}
    ELSE {n.Inner} \cup ReachInners(inn, Child(inn, n.Inner, 0))
                   \cup ReachInners(inn, Child(inn, n.Inner, 1))

RECURSIVE ReachLeaves(_, _)
\* the Leaf objects reachable from node n
ReachLeaves(inn, n) ==
    IF n.Inner # Nil
    THEN ReachLeaves(inn, Child(inn, n.Inner, 0)) \cup ReachLeaves(inn, Child(inn, n.Inner, 1))
    ELSE IF n.Leaf # Nil THEN {n.Leaf} ELSE {}

RECURSIVE InnerOrder(_, _)
\* the Inner objects reachable from node n, in the order a walk meets them
InnerOrder(inn, n) ==
    IF n.Inner = Nil THEN <<>>
    ELSE <<n.Inner>> \o InnerOrder(inn, Child(inn, n.Inner, 0))
                     \o InnerOrder(inn, Child(inn, n.Inner, 1))

RECURSIVE LeafOrder(_, _)
\* the Leaf objects reachable from node n, in the order a walk meets them
LeafOrder(inn, n) ==
    IF n.Inner # Nil
    THEN LeafOrder(inn, Child(inn, n.Inner, 0)) \o LeafOrder(inn, Child(inn, n.Inner, 1))
    ELSE IF n.Leaf # Nil THEN <<n.Leaf>> ELSE <<>>

\* the place of address a in an order (Nil stays Nil)
Renamed(order, a) ==
    IF a = Nil THEN Nil ELSE CHOOSE i \in 1..Len(order) : order[i] = a

RenamedNode(io, lo, n) == [Leaf |-> Renamed(lo, n.Leaf), Inner |-> Renamed(io, n.Inner)]

RECURSIVE Uniq(_)
\* a sequence without the later occurrences of its members
Uniq(s) ==
    IF s = <<>> THEN <<>>
    ELSE LET r == Uniq(SubSeq(s, 1, Len(s) - 1))
         IN  IF \E i \in 1..Len(r) : r[i] = s[Len(s)] THEN r ELSE Append(r, s[Len(s)])

RECURSIVE InnerOrderAll(_, _)
\* the Inner objects reachable from the Nodes of roots, in the order a walk meets them
InnerOrderAll(inn, roots) ==
    IF roots = <<>> THEN <<>>
    ELSE InnerOrder(inn, Head(roots)) \o InnerOrderAll(inn, Tail(roots))

RECURSIVE LeafOrderAll(_, _)
\* the Leaf objects reachable from the Nodes of roots, in the order a walk meets them
LeafOrderAll(inn, roots) ==
    IF roots = <<>> THEN <<>>
    ELSE LeafOrder(inn, Head(roots)) \o LeafOrderAll(inn, Tail(roots))

(* Addresses are opaque to the program, and the garbage collector frees what  *)
(* no reference reaches: after each call the heaps hold exactly the live      *)
(* objects, numbered in the order a walk from the roots meets them.  The      *)
(* roots are the tree's root and the Nodes and Leaves a Scanner holds.        *)
\* the Inner heap after the collection: io and lo are the live objects in order
CollectInners(io, lo, inn) ==
    [i \in 1..Len(io) |->
        [bit   |-> inn[io[i]].bit,
         child |-> <<RenamedNode(io, lo, inn[io[i]].child[1]),
                     RenamedNode(io, lo, inn[io[i]].child[2])>>]]

\* the Leaf heap after the collection
CollectLeaves(lo, lv) == [i \in 1..Len(lo) |-> lv[lo[i]]]

-----------------------------------------------------------------------------
(* Tree (tree.go) *)

RECURSIVE WalkSlot(_, _, _, _)
\* the descent shared by findLeaf and Delete: follow key to a Node without Inner
WalkSlot(rt, inn, slot, key) ==
    LET n == Deref(rt, inn, slot)
    IN  IF n.Inner = Nil THEN slot
        ELSE WalkSlot(rt, inn, ChildSlot(n.Inner, Direction(key, inn[n.Inner].bit)), key)

\* findLeaf: the *Leaf the descent ends at (Nil in an empty tree)
findLeaf(rt, inn, key) == Deref(rt, inn, WalkSlot(rt, inn, RootSlot, key)).Leaf

\* findNode stops at an Inner whose bit is larger than the new one
findNodeStops(innerBit, bit) == innerBit > bit

RECURSIVE findNodeFrom(_, _, _, _, _)
findNodeFrom(rt, inn, slot, key, bit) ==
    LET n == Deref(rt, inn, slot)
    IN  IF n.Inner = Nil THEN slot
        ELSE IF findNodeStops(inn[n.Inner].bit, bit) THEN slot
        ELSE findNodeFrom(rt, inn, ChildSlot(n.Inner, Direction(key, inn[n.Inner].bit)),
                          key, bit)

findNode(rt, inn, key, bit) == findNodeFrom(rt, inn, RootSlot, key, bit)

\* the children of insertNode's new Inner: the leaf on its own side, *n on the other
insertChildren(dir, leafAddr, old) ==
    IF dir = 0 THEN <<LeafNode(leafAddr), old>> ELSE <<old, LeafNode(leafAddr)>>

\* Get's result
Found(v) == [val |-> v, found |-> TRUE]

NotFound == [val |-> ZeroV, found |-> FALSE]

\* Get's and Delete's test of the leaf the descent ended at
leafMatches(leafKey, key) == Equal(leafKey, key)

GetIn(rt, inn, lv, key) ==
    LET leaf == findLeaf(rt, inn, key)
    IN  IF leaf = Nil THEN NotFound
        ELSE IF ~leafMatches(lv[leaf].Key, key) THEN NotFound
        ELSE Found(lv[leaf].Value)

RECURSIVE LongestFrom(_, _, _, _)
\* Node.Longest
LongestFrom(inn, lv, n, key) ==
    IF n.Inner # Nil
    THEN LET dir == Direction(key, inn[n.Inner].bit)
             r   == LongestFrom(inn, lv, Child(inn, n.Inner, dir), key)
         IN  IF r.found THEN r
             ELSE IF dir = 1 THEN LongestFrom(inn, lv, Child(inn, n.Inner, 0), key)
             ELSE NotFound
    ELSE IF n.Leaf # Nil
    THEN IF HasPrefix(key, lv[n.Leaf].Key) THEN Found(lv[n.Leaf].Value) ELSE NotFound
    ELSE NotFound

\* Tree.Longest
LongestIn(rt, inn, lv, key) == LongestFrom(inn, lv, rt, key)

RECURSIVE WalkPanics(_, _, _, _)
\* the descent by key indexes key.Data out of range on its way
WalkPanics(rt, inn, slot, key) ==
    LET n == Deref(rt, inn, slot)
    IN  IF n.Inner = Nil THEN FALSE
        ELSE \/ DirectionPanics(key, inn[n.Inner].bit)
             \/ WalkPanics(rt, inn, ChildSlot(n.Inner, Direction(key, inn[n.Inner].bit)), key)

RECURSIVE LongestPanics(_, _, _, _)
\* Node.Longest indexes out of range on its way
LongestPanics(inn, lv, n, key) ==
    IF n.Inner # Nil
    THEN LET dir == Direction(key, inn[n.Inner].bit)
         IN  \/ DirectionPanics(key, inn[n.Inner].bit)
             \/ LongestPanics(inn, lv, Child(inn, n.Inner, dir), key)
             \/ /\ ~LongestFrom(inn, lv, Child(inn, n.Inner, dir), key).found
                /\ dir = 1
                /\ LongestPanics(inn, lv, Child(inn, n.Inner, 0), key)
    ELSE IF n.Leaf # Nil THEN HasPrefixPanics(key, lv[n.Leaf].Key)
    ELSE FALSE

-----------------------------------------------------------------------------
(* Scanner *)

\* a NewScanner that leaves dir at its zero value
NewScannerForward(rt, reverse) == [dir |-> 0, stack |-> <<rt>>]

\* NewScanner(root, reverse): dir is set, the root is pushed
NewScanner(rt, reverse) == [dir |-> IF reverse THEN 1 ELSE 0, stack |-> <<rt>>]

\* push
push(stack, node) == Append(stack, node)

\* pop: the top Node (the zero Node if the stack is empty) and the stack left
pop(stack) ==
    IF Len(stack) = 0 THEN [node |-> EmptyNode, stack |-> stack]
    ELSE [node |-> stack[Len(stack)], stack |-> SubSeq(stack, 1, Len(stack) - 1)]

RECURSIVE scanLoopNoPush(_, _, _, _)
\* a Scan loop that forgets to push the child it will visit later
scanLoopNoPush(inn, n, dir, stack) ==
    IF n.Inner = Nil THEN [leaf |-> n.Leaf, stack |-> stack]
    ELSE scanLoopNoPush(inn, Child(inn, n.Inner, dir), dir, stack)

RECURSIVE scanLoopPushesNear(_, _, _, _)
\* a Scan loop that pushes the child it goes on with, not the other one
scanLoopPushesNear(inn, n, dir, stack) ==
    IF n.Inner = Nil THEN [leaf |-> n.Leaf, stack |-> stack]
    ELSE scanLoopPushesNear(inn, Child(inn, n.Inner, dir), dir,
                            push(stack, Child(inn, n.Inner, dir)))

RECURSIVE scanLoop(_, _, _, _)
\* Scan's loop: push the far child, go on with the near one, down to a Node without Inner
scanLoop(inn, n, dir, stack) ==
    IF n.Inner = Nil THEN [leaf |-> n.Leaf, stack |-> stack]
    ELSE scanLoop(inn, Child(inn, n.Inner, dir), dir,
                  push(stack, Child(inn, n.Inner, 1 - dir)))

\* Scan: the *Leaf returned (Nil when exhausted) and the scanner after the call
Scan(inn, s) ==
    LET top == pop(s.stack)
        r   == scanLoop(inn, top.node, s.dir, top.stack)
    IN  [leaf |-> r.leaf, s |-> [dir |-> s.dir, stack |-> r.stack]]

RECURSIVE scanAll(_, _)
\* the leaves the loop "for { leaf := s.Scan(); if leaf == nil { break } ... }" sees
scanAll(inn, s) ==
    LET r == Scan(inn, s)
    IN  IF r.leaf = Nil THEN <<>> ELSE <<r.leaf>> \o scanAll(inn, r.s)

\* Tree.Keys: the keys a range over Keys() yields when never stopped
KeysIn(rt, inn, lv) ==
    LET ls == scanAll(inn, NewScanner(rt, FALSE))
    IN  [i \in 1..Len(ls) |-> lv[ls[i]].Key]

(* scan: the Scanner of the run (dir, stack), with what is known of its use:  *)
(* out, the leaves Scan has returned, in order; ret, what the last Scan       *)
(* returned; nils, how often Scan has returned nil; total, the number of      *)
(* leaves under the root it was made over; mutated, that the tree was written *)
(* since it was made, and cut, how many leaves it had yielded when that first *)
(* happened; foreign, that the tree was written otherwise than by a Delete of *)
(* a key the scanner had yielded; fresh, the leaves Set has linked since it   *)
(* was made; writes, how many Sets and Deletes have written the tree since.   *)
NoScanner ==
    [live |-> FALSE, dir |-> 0, stack |-> <<>>, out |-> <<>>, ret |-> Nil,
     nils |-> 0, total |-> 0, mutated |-> FALSE, cut |-> 0, foreign |-> FALSE,
     fresh |-> {}, writes |-> 0]

\* what stays alive: the tree's root, the scanner's stack, the leaves handed out
RootsOf(rt, s) == <<rt>> \o s.stack \o [i \in 1..Len(s.out) |-> LeafNode(s.out[i])]

\* the scanner after the collection has renumbered the live objects io and lo
Moved(io, lo, s) ==
    [s EXCEPT !.stack = [i \in 1..Len(s.stack) |-> RenamedNode(io, lo, s.stack[i])],
              !.out   = [i \in 1..Len(s.out) |-> Renamed(lo, s.out[i])],
              !.ret   = Renamed(lo, s.ret),
              !.fresh = {Renamed(lo, a) : a \in {x \in s.fresh : \E i \in 1..Len(lo) : lo[i] = x}}]

\* the scanner has yielded a leaf with this key
Yielded(s, lv, key) == \E i \in 1..Len(s.out) : lv[s.out[i]].Key = key

\* the scanner's history after a Set that wrote the tree
AfterSet(s) ==
    [s EXCEPT !.mutated = s.live,
              !.cut     = IF s.live /\ ~s.mutated THEN Len(s.out) ELSE @,
              !.foreign = s.live,
              !.writes  = IF s.live THEN @ + 1 ELSE @]

\* the scanner's history after a Set that linked the new leaf a
AfterInsert(s, a) == [AfterSet(s) EXCEPT !.fresh = IF s.live THEN @ \cup {a} ELSE @]

\* the scanner's history after a Delete that removed a leaf with this key
AfterDelete(s, lv, key) ==
    [s EXCEPT !.mutated = s.live,
              !.cut     = IF s.live /\ ~s.mutated THEN Len(s.out) ELSE @,
              !.foreign = s.foreign \/ (s.live /\ ~Yielded(s, lv, key)),
              !.writes  = IF s.live THEN @ + 1 ELSE @]

-----------------------------------------------------------------------------
(* History variables *)

NoKey == BitsKey(<<>>, 0)

(* last: the call (op, key, value), what it returned (val, found: for Get and *)
(* Longest the result, for Set whether it replaced, for Delete whether it    *)
(* removed), and for Set and Delete whether the call before it was the same  *)
(* operation on the same key.                                                *)
Call(op, key, value, val, found) ==
    [op |-> op, key |-> key, value |-> value, val |-> val, found |-> found,
     again |-> op \in {"Set", "Delete"} /\ last.op = op /\ last.key = key]

NoCall ==
    [op |-> "none", key |-> NoKey, value |-> ZeroV, val |-> ZeroV, found |-> FALSE,
     again |-> FALSE]

(* shadow is the plain map of the well-formed keys: where keys are drawn that *)
(* differ only in bytes or bits that are not significant, it is not kept.    *)
\* the plain map after Set(key, value)
ShadowSet(sh, key, value) ==
    IF wide THEN sh ELSE {e \in sh : e.key # key} \cup {[key |-> key, val |-> value]}

\* the plain map after Delete(key)
ShadowDelete(sh, key) == IF wide THEN sh ELSE {e \in sh : e.key # key}

\* the plain map's lookup
ShadowGet(sh, key) ==
    IF \E e \in sh : e.key = key
    THEN Found((CHOOSE e \in sh : e.key = key).val)
    ELSE NotFound

-----------------------------------------------------------------------------
(* The operations of Tree *)

\* the call panics: nothing it had not yet written is written
Panic(op, key, value) ==
    /\ panicked' = TRUE
    /\ last' = Call(op, key, value, ZeroV, FALSE)
    /\ UNCHANGED <<treeVars, shadow, scan>>

\* a descent that advances by *n = inner.child[0] where it should by n = &inner.child[0]
DescentWrites ==
    /\ root' = IF root.Inner = Nil THEN root ELSE Child(inners, root.Inner, 0)
    /\ UNCHANGED <<nums, inners, leaves>>

\* a call that only reads: it assigns to no field of the tree or of a node
ReadOnly == UNCHANGED treeVars

\* the tree as the program sees it
TreeOf(rt, nm, inn, lv) == [root |-> rt, nums |-> nm, inners |-> inn, leaves |-> lv]

Tree == TreeOf(root, nums, inners, leaves)

\* the call returns and leaves the tree as t, the scanner's history as s
Store(t, s) ==
    LET roots == RootsOf(t.root, s)
        io    == Uniq(InnerOrderAll(t.inners, roots))
        lo    == Uniq(LeafOrderAll(t.inners, roots))
    IN  /\ root' = RenamedNode(io, lo, t.root)
        /\ inners' = CollectInners(io, lo, t.inners)
        /\ leaves' = CollectLeaves(lo, t.leaves)
        /\ nums' = t.nums
        /\ scan' = Moved(io, lo, s)
        /\ UNCHANGED panicked

\* Set's first branch: the tree is empty, the key becomes the root's leaf
SetFirst(t, key, value) ==
    LET a == NewAddr(t.leaves)
    IN  TreeOf([t.root EXCEPT !.Leaf = a], t.nums + 1, t.inners,
               Alloc(t.leaves, a, [Key |-> key, Value |-> value]))

\* a replace branch that links a new Leaf where it should write the value into the old one
SetReplaceNewLeaf(t, leaf, value) ==
    LET a       == NewAddr(t.leaves)
        swap(n) == IF n.Leaf = leaf THEN LeafNode(a) ELSE n
        live    == ReachInners(t.inners, t.root)
    IN  TreeOf(swap(t.root), t.nums,
               [i \in DOMAIN t.inners |->
                   IF i \in live
                   THEN [t.inners[i] EXCEPT !.child = <<swap(@[1]), swap(@[2])>>]
                   ELSE t.inners[i]],
               Alloc(t.leaves, a, [Key |-> t.leaves[leaf].Key, Value |-> value]))

\* a replace branch that lacks its return and runs on into the count
SetReplaceCounts(t, leaf, value) ==
    TreeOf(t.root, t.nums + 1, t.inners, [t.leaves EXCEPT ![leaf].Value = value])

\* Set's second branch: the key exists, its value is replaced
SetReplace(t, leaf, value) ==
    TreeOf(t.root, t.nums, t.inners, [t.leaves EXCEPT ![leaf].Value = value])

\* the side of the new Inner insertNode puts the new leaf on
insertDir(key, bit) == Direction(key, bit)

\* an insertNode that ends with n.Inner = inner where it should with *n = Node{Inner: inner}
insertNodeKeepsLeaf(t, n, key, value, bit) ==
    LET la    == NewAddr(t.leaves)
        ia    == NewAddr(t.inners)
        dir   == insertDir(key, bit)
        old   == Deref(t.root, t.inners, n)
        inner == [bit |-> bit, child |-> insertChildren(dir, la, old)]
        node  == [Leaf |-> old.Leaf, Inner |-> ia]
    IN  TreeOf(StoreRoot(t.root, n, node),
               t.nums + 1,
               StoreInners(Alloc(t.inners, ia, inner), n, node),
               Alloc(t.leaves, la, [Key |-> key, Value |-> value]))

\* insertNode(n, &Leaf{key, value}, bit)
insertNode(t, n, key, value, bit) ==
    LET la    == NewAddr(t.leaves)
        ia    == NewAddr(t.inners)
        dir   == insertDir(key, bit)
        inner == [bit |-> bit,
                  child |-> insertChildren(dir, la, Deref(t.root, t.inners, n))]
    IN  TreeOf(StoreRoot(t.root, n, InnerNode(ia)),
               t.nums + 1,
               StoreInners(Alloc(t.inners, ia, inner), n, InnerNode(ia)),
               Alloc(t.leaves, la, [Key |-> key, Value |-> value]))

\* Set's third branch: findNode, then insertNode
SetInsert(t, key, value, bit) ==
    insertNode(t, findNode(t.root, t.inners, key, bit), key, value, bit)

\* the specifications bound the tree: no Set adds a leaf beyond LeafBound
LeafBound == IF wide THEN MaxLeavesAny ELSE MaxLeaves

\* Set would add a leaf
SetGrows(key) ==
    LET leaf == findLeaf(root, inners, key)
    IN  leaf = Nil \/ Critbit(leaves[leaf].Key, key) \notin {Identical, IndexPanic}

Set(key, value) ==
    /\ ~panicked
    /\ SetGrows(key) => nums < LeafBound
    /\ UNCHANGED keyVars
    /\ IF WalkPanics(root, inners, RootSlot, key) THEN Panic("Set", key, value)
       ELSE LET leaf == findLeaf(root, inners, key)
            IN  IF leaf = Nil
                THEN /\ Store(SetFirst(Tree, key, value),
                                AfterInsert(scan, NewAddr(leaves)))
                     /\ shadow' = ShadowSet(shadow, key, value)
                     /\ last' = Call("Set", key, value, ZeroV, FALSE)
                ELSE LET bit == Critbit(leaves[leaf].Key, key)
                     IN  IF bit = IndexPanic THEN Panic("Set", key, value)
                         ELSE /\ IF bit = Identical
                                 THEN Store(SetReplace(Tree, leaf, value), AfterSet(scan))
                                 ELSE Store(SetInsert(Tree, key, value, bit),
                                            AfterInsert(scan, NewAddr(leaves)))
                              /\ shadow' = ShadowSet(shadow, key, value)
                              /\ last' = Call("Set", key, value, ZeroV, bit = Identical)

RECURSIVE ParentSlot(_, _, _, _)
\* Delete's p: the slot of the last Inner on the descent (the root slot if none)
ParentSlot(rt, inn, slot, key) ==
    LET n == Deref(rt, inn, slot)
    IN  IF n.Inner = Nil THEN slot
        ELSE LET next == ChildSlot(n.Inner, Direction(key, inn[n.Inner].bit))
             IN  IF Deref(rt, inn, next).Inner = Nil THEN slot
                 ELSE ParentSlot(rt, inn, next, key)

\* the Node Delete writes over the parent: p.Inner.child[dir^1]
deleteSibling(inn, parent, dir) == Child(inn, parent, 1 - dir)

\* a removal that lacks its t.nums--
deleteNodeNoCount(t, p, dir) ==
    LET parent == Deref(t.root, t.inners, p).Inner
    IN  IF parent = Nil
        THEN TreeOf(EmptyNode, t.nums, t.inners, t.leaves)
        ELSE TreeOf(StoreRoot(t.root, p, deleteSibling(t.inners, parent, dir)),
                    t.nums,
                    StoreInners(t.inners, p, deleteSibling(t.inners, parent, dir)),
                    t.leaves)

\* Delete's removal: the root is reset, or the parent is replaced by the sibling
deleteNode(t, p, dir) ==
    LET parent == Deref(t.root, t.inners, p).Inner
    IN  IF parent = Nil
        THEN TreeOf(EmptyNode, t.nums - 1, t.inners, t.leaves)
        ELSE TreeOf(StoreRoot(t.root, p, deleteSibling(t.inners, parent, dir)),
                    t.nums - 1,
                    StoreInners(t.inners, p, deleteSibling(t.inners, parent, dir)),
                    t.leaves)

Delete(key) ==
    /\ ~panicked
    /\ UNCHANGED keyVars
    /\ IF WalkPanics(root, inners, RootSlot, key) THEN Panic("Delete", key, ZeroV)
       ELSE LET n    == WalkSlot(root, inners, RootSlot, key)
                p    == ParentSlot(root, inners, RootSlot, key)
                leaf == Deref(root, inners, n).Leaf
            IN  /\ IF leaf = Nil
                   THEN /\ UNCHANGED <<treeVars, panicked, scan>>
                        /\ last' = Call("Delete", key, ZeroV, ZeroV, FALSE)
                   ELSE IF ~leafMatches(leaves[leaf].Key, key)
                   THEN /\ UNCHANGED <<treeVars, panicked, scan>>
                        /\ last' = Call("Delete", key, ZeroV, ZeroV, FALSE)
                   ELSE /\ Store(deleteNode(Tree, p, n.dir), AfterDelete(scan, leaves, key))
                        /\ last' = Call("Delete", key, ZeroV, ZeroV, TRUE)
                /\ shadow' = ShadowDelete(shadow, key)

Get(key) ==
    /\ ~panicked
    /\ UNCHANGED keyVars
    /\ IF WalkPanics(root, inners, RootSlot, key) THEN Panic("Get", key, ZeroV)
       ELSE LET r == GetIn(root, inners, leaves, key)
            IN  /\ last' = Call("Get", key, ZeroV, r.val, r.found)
                /\ ReadOnly
                /\ UNCHANGED <<panicked, shadow, scan>>

Longest(key) ==
    /\ ~panicked
    /\ UNCHANGED keyVars
    /\ IF LongestPanics(inners, leaves, root, key) THEN Panic("Longest", key, ZeroV)
       ELSE LET r == LongestIn(root, inners, leaves, key)
            IN  /\ last' = Call("Longest", key, ZeroV, r.val, r.found)
                /\ ReadOnly
                /\ UNCHANGED <<panicked, shadow, scan>>

-----------------------------------------------------------------------------
(* Specifications *)

\* the bytes whose bits beyond the first n are zero
BytesOfBits(n) == {x \in 0..255 : x % Pow2(8 - n) = 0}

\* data cut to the bytes nbits needs, the padding bits of the last byte cleared
Canonical(data, nbits) ==
    [i \in 1..CeilBytes(nbits) |->
        IF i = CeilBytes(nbits) /\ nbits % 8 # 0
        THEN And8(data[i], HighMask(8 - (nbits % 8)))
        ELSE data[i]]

\* the well-formed keys of at most MaxBits bits
WFKeys == {BitsKey(Canonical(<<x>>, n), n) : x \in BytesOfBits(MaxBits), n \in 0..MaxBits}

\* the zero value of Tree: an empty tree
InitTree ==
    /\ root = EmptyNode
    /\ nums = 0
    /\ inners = <<>>
    /\ leaves = <<>>
    /\ panicked = FALSE
    /\ shadow = {}
    /\ last = NoCall
    /\ scan = NoScanner

Init ==
    /\ InitTree
    /\ wide = FALSE
    /\ ka = NoKey
    /\ kb = NoKey
    /\ kres = [op |-> "none", arg |-> 0, ret |-> 0]

Next ==
    \E key \in WFKeys :
        \/ \E value \in Values : Set(key, value)
        \/ Delete(key)
        \/ Get(key)
        \/ Longest(key)

Spec == Init /\ [][Next]_vars

\* the valid keys of at most MaxBits bits: data of no or one byte, padding bits free
AnyKeys ==
    {BitsKey(<<>>, 0)} \cup {BitsKey(<<x>>, n) : x \in BytesOfBits(MaxBits), n \in 0..MaxBits}

InitAny ==
    /\ InitTree
    /\ wide = TRUE
    /\ ka = NoKey
    /\ kb = NoKey
    /\ kres = [op |-> "none", arg |-> 0, ret |-> 0]

NextAny ==
    \E key \in AnyKeys :
        \/ \E value \in Values : Set(key, value)
        \/ Delete(key)
        \/ Get(key)
        \/ Longest(key)

SpecAny == InitAny /\ [][NextAny]_vars

-----------------------------------------------------------------------------
(* The functions of Key, applied to drawn keys *)

\* the bytes the Key specification draws data from
KeyBytes == {0, 1, 128, 192}

\* the well-formed keys of at most MaxKeyBits bits over KeyBytes
PureKeys ==
    {BitsKey(Canonical(<<x, y>>, n), n) : x \in KeyBytes, y \in KeyBytes, n \in 0..MaxKeyBits}

\* the encoded ordinals Direction is asked about
Ordinals == 0..(2 * MaxKeyBits + 1)

Applied(op, arg, ret) == [op |-> op, arg |-> arg, ret |-> ret]

InitKey ==
    /\ InitTree
    /\ wide = FALSE
    /\ ka \in PureKeys
    /\ kb \in PureKeys
    /\ kres = Applied("none", 0, 0)

CritbitStep ==
    /\ kres' = Applied("Critbit", 0, Critbit(ka, kb))
    /\ UNCHANGED <<wide, treeVars, panicked, shadow, last, ka, kb, scan>>

EqualStep ==
    /\ kres' = Applied("Equal", 0, IF Equal(ka, kb) THEN 1 ELSE 0)
    /\ UNCHANGED <<wide, treeVars, panicked, shadow, last, ka, kb, scan>>

HasPrefixStep ==
    /\ kres' = Applied("HasPrefix", 0,
                       IF HasPrefixPanics(ka, kb) THEN IndexPanic
                       ELSE IF HasPrefix(ka, kb) THEN 1 ELSE 0)
    /\ UNCHANGED <<wide, treeVars, panicked, shadow, last, ka, kb, scan>>

DirectionStep(bit) ==
    /\ kres' = Applied("Direction", bit,
                       IF DirectionPanics(ka, bit) THEN IndexPanic ELSE Direction(ka, bit))
    /\ UNCHANGED <<wide, treeVars, panicked, shadow, last, ka, kb, scan>>

NextKey ==
    \/ CritbitStep
    \/ EqualStep
    \/ HasPrefixStep
    \/ \E bit \in Ordinals : DirectionStep(bit)

SpecKey == InitKey /\ [][NextKey]_vars

-----------------------------------------------------------------------------
(* Len, the Scanner and the iterators Keys, Values and All, as calls *)

\* the consumer of an iterator returns false at its MaxStop-th item at the latest
MaxStop == 2

\* a Scan is called again at most MaxNils times after the scanner is exhausted
MaxNils == 2

\* where the consumer breaks: at its stop-th item, never when stop = 0
Stops == 0..MaxStop

RECURSIVE KeysLoop(_, _, _, _, _)
\* Tree.Keys: the keys yielded, the consumer returning false at its stop-th
KeysLoop(inn, lv, s, stop, n) ==
    LET r == Scan(inn, s)
    IN  IF r.leaf = Nil THEN <<>>
        ELSE IF n + 1 = stop THEN <<lv[r.leaf].Key>>
        ELSE <<lv[r.leaf].Key>> \o KeysLoop(inn, lv, r.s, stop, n + 1)

RECURSIVE ValuesLoopNoBreak(_, _, _, _, _)
\* a Values that goes on after the consumer has returned false
ValuesLoopNoBreak(inn, lv, s, stop, n) ==
    LET r == Scan(inn, s)
    IN  IF r.leaf = Nil THEN <<>>
        ELSE <<lv[r.leaf].Value>> \o ValuesLoopNoBreak(inn, lv, r.s, stop, n + 1)

RECURSIVE ValuesLoop(_, _, _, _, _)
\* Tree.Values
ValuesLoop(inn, lv, s, stop, n) ==
    LET r == Scan(inn, s)
    IN  IF r.leaf = Nil THEN <<>>
        ELSE IF n + 1 = stop THEN <<lv[r.leaf].Value>>
        ELSE <<lv[r.leaf].Value>> \o ValuesLoop(inn, lv, r.s, stop, n + 1)

RECURSIVE AllLoop(_, _, _, _, _)
\* Tree.All
AllLoop(inn, lv, s, stop, n) ==
    LET r == Scan(inn, s)
    IN  IF r.leaf = Nil THEN <<>>
        ELSE IF n + 1 = stop THEN <<<<lv[r.leaf].Key, lv[r.leaf].Value>>>>
        ELSE <<<<lv[r.leaf].Key, lv[r.leaf].Value>>>> \o AllLoop(inn, lv, r.s, stop, n + 1)

\* the rest of a call that only reads and cannot panic
Reads ==
    /\ ReadOnly
    /\ UNCHANGED <<keyVars, panicked, shadow>>

LenCall ==
    /\ ~panicked
    /\ last' = Call("Len", NoKey, ZeroV, nums, TRUE)
    /\ Reads
    /\ UNCHANGED scan

\* for key := range t.Keys(): s := NewScanner(t.root, false), then the loop
RangeKeys(stop) ==
    /\ ~panicked
    /\ last' = Call("Keys", NoKey, stop,
                    KeysLoop(inners, leaves, NewScanner(root, FALSE), stop, 0), TRUE)
    /\ Reads
    /\ UNCHANGED scan

RangeValues(stop) ==
    /\ ~panicked
    /\ last' = Call("Values", NoKey, stop,
                    ValuesLoop(inners, leaves, NewScanner(root, FALSE), stop, 0), TRUE)
    /\ Reads
    /\ UNCHANGED scan

RangeAll(stop) ==
    /\ ~panicked
    /\ last' = Call("All", NoKey, stop,
                    AllLoop(inners, leaves, NewScanner(root, FALSE), stop, 0), TRUE)
    /\ Reads
    /\ UNCHANGED scan

\* s := NewScanner(t.root, reverse): the run makes one scanner
NewScannerCall(reverse) ==
    /\ ~panicked
    /\ ~scan.live
    /\ scan' = [NoScanner EXCEPT !.live  = TRUE,
                                 !.dir   = NewScanner(root, reverse).dir,
                                 !.stack = NewScanner(root, reverse).stack,
                                 !.total = Cardinality(ReachLeaves(inners, root))]
    /\ last' = Call("NewScanner", NoKey, ZeroV, ZeroV, reverse)
    /\ Reads

\* leaf := s.Scan()
ScanCall ==
    /\ ~panicked
    /\ scan.live
    /\ scan.nils < MaxNils
    /\ LET r == Scan(inners, [dir |-> scan.dir, stack |-> scan.stack])
       IN  /\ scan' = [scan EXCEPT !.stack = r.s.stack,
                                   !.out   = IF r.leaf = Nil THEN @ ELSE Append(@, r.leaf),
                                   !.ret   = r.leaf,
                                   !.nils  = IF r.leaf = Nil THEN @ + 1 ELSE @]
           /\ last' = Call("Scan", NoKey, ZeroV, ZeroV, r.leaf # Nil)
    /\ Reads

\* the keys of the scanning runs: the well-formed keys of at least one bit
ScanKeys == {k \in WFKeys : k.Nbits > 0}

\* the value the scanning runs store
ScanValues == {1}

(* A scanning run builds a tree and reads it, then makes a scanner and calls  *)
(* Scan, deleting in between keys that the scanner has yielded.               *)
NextScan ==
    \/ /\ ~scan.live
       /\ \/ \E key \in ScanKeys :
                \/ \E value \in ScanValues : Set(key, value)
                \/ Delete(key)
                \/ Get(key)
                \/ Longest(key)
          \/ LenCall
          \/ \E stop \in Stops : RangeKeys(stop) \/ RangeValues(stop) \/ RangeAll(stop)
          \/ \E reverse \in BOOLEAN : NewScannerCall(reverse)
    \/ /\ scan.live
       /\ \/ ScanCall
          \/ \E key \in ScanKeys : Yielded(scan, leaves, key) /\ Delete(key)

SpecScan == Init /\ [][NextScan]_vars

\* a mixed run writes the tree at most this often between the Scans
MaxWrites == 2

\* the keys of the mixed runs: "0", "1", "00", "01"
MixKeys == {k \in ScanKeys : k.Nbits = 1 \/ ByteAt(k.Data, 0) < 128}

(* A mixed run builds a tree, makes a scanner and then calls Scan, Set and    *)
(* Delete in any order.                                                       *)
NextMix ==
    \/ /\ scan.live => scan.writes < MaxWrites
       /\ \E key \in MixKeys :
             \/ \E value \in ScanValues : Set(key, value)
             \/ Delete(key)
    \/ \E reverse \in BOOLEAN : NewScannerCall(reverse)
    \/ ScanCall

SpecMix == Init /\ [][NextMix]_vars

(* An iterating run builds a tree with both values and ranges over it.        *)
NextIter ==
    \/ \E key \in ScanKeys :
          \/ \E value \in Values : Set(key, value)
          \/ Delete(key)
    \/ \E stop \in Stops : RangeKeys(stop) \/ RangeValues(stop) \/ RangeAll(stop)

SpecIter == Init /\ [][NextIter]_vars

-----------------------------------------------------------------------------
(* Bit strings: what the claims say of keys *)

\* bit p of key k, p < k.Nbits
KeyBit(k, p) == BitOf(ByteAt(k.Data, p \div 8), p % 8)

\* the positions below both lengths at which a and b differ
DiffPositions(a, b) == {p \in 0..(Min(a.Nbits, b.Nbits) - 1) : KeyBit(a, p) # KeyBit(b, p)}

\* the smallest member of a non-empty set of numbers
Least(S) == CHOOSE p \in S : \A q \in S : p <= q

\* p is a prefix of k as a bit string
IsPrefix(p, k) == p.Nbits <= k.Nbits /\ \A i \in 0..(p.Nbits - 1) : KeyBit(p, i) = KeyBit(k, i)

\* a comes strictly before b in bit-string order
KeyLess(a, b) ==
    IF DiffPositions(a, b) # {}
    THEN KeyBit(a, Least(DiffPositions(a, b))) = 0
    ELSE a.Nbits < b.Nbits

\* the ordinal the documentation of Critbit gives for a and b
DocumentedCritbit(a, b) ==
    IF DiffPositions(a, b) # {} THEN DataDiff(Least(DiffPositions(a, b)) \div 8,
                                              Least(DiffPositions(a, b)) % 8)
    ELSE IF a.Nbits = b.Nbits THEN Identical
    ELSE LengthDiff(Min(a.Nbits, b.Nbits))

-----------------------------------------------------------------------------
(* Claims *)

\* the keys of the leaves reachable from the root
StoredKeys(rt, inn, lv) == {lv[l].Key : l \in ReachLeaves(inn, rt)}

\* the entries of the plain map whose key is a prefix of q
PrefixEntries(sh, q) == {e \in sh : IsPrefix(e.key, q)}

\* the longest-prefix match over the plain map
ShadowLongest(sh, q) ==
    IF PrefixEntries(sh, q) = {} THEN NotFound
    ELSE Found((CHOOSE e \in PrefixEntries(sh, q) :
                   \A f \in PrefixEntries(sh, q) : f.key.Nbits <= e.key.Nbits).val)

(* C1: after any sequence of Set and Delete calls on well-formed keys, Get(k) *)
(* returns (v, true) exactly when the last Set or Delete on k was Set(k, v):  *)
(* the tree refines a plain map.                                              *)
C1_GetRefinesMap ==
    \A k \in WFKeys : GetIn(root, inners, leaves, k) = ShadowGet(shadow, k)

(* C2: for every key with Nbits <= 8 * len(Data) and every value, in every    *)
(* reachable tree, Get(k) called right after Set(k, v) returns (v, true).     *)
C2_RoundTrip ==
    [][(last.op = "Set" /\ ~panicked /\ last'.op = "Get" /\ last'.key = last.key)
          => (~panicked' /\ last'.found /\ last'.val = last.value)]_vars

(* C3: Longest(q) returns the value of the longest stored key that is a       *)
(* prefix of q, and reports not-found exactly when no stored key is a prefix  *)
(* of q.                                                                      *)
C3_LongestIsLongestPrefix ==
    \A q \in WFKeys : LongestIn(root, inners, leaves, q) = ShadowLongest(shadow, q)

(* C4: a forward scan yields the stored keys in strictly ascending bit-string *)
(* order, whatever the order of insertion.                                    *)
C4_ForwardScanAscending ==
    LET ks == KeysIn(root, inners, leaves)
    IN  /\ {ks[i] : i \in 1..Len(ks)} = {e.key : e \in shadow}
        /\ \A i \in 1..(Len(ks) - 1) : KeyLess(ks[i], ks[i + 1])

(* C5: Len() is the number of distinct keys whose last operation was a Set.   *)
C5_LenCountsKeys == nums = Cardinality({e.key : e \in shadow})

(* C6: for valid keys Set, Get, Delete and Longest complete normally: no step *)
(* reads a data byte at an index >= len(Data).                                *)
C6_NoPanic == ~panicked

C8_DeleteRemoves ==
    [][(last'.op = "Delete" /\ ~panicked')
          => /\ last'.key \notin StoredKeys(root', inners', leaves')
             /\ ~GetIn(root', inners', leaves', last'.key).found
             /\ last'.key \in StoredKeys(root, inners, leaves) => nums' = nums - 1]_vars

(* C9: Delete(k) of a key Get(k) does not find changes nothing: Len(), the    *)
(* node structure and every entry stay; so Delete(k); Delete(k) leaves what   *)
(* one Delete(k) leaves.                                                      *)
C9_DeleteAbsentNoop ==
    [][(last'.op = "Delete" /\ ~panicked'
            /\ (~GetIn(root, inners, leaves, last'.key).found \/ last'.again))
          => UNCHANGED treeVars]_vars

\* the first half alone: a Delete of a key Get does not find changes nothing
DeleteNotFoundFrame ==
    [][(last'.op = "Delete" /\ ~panicked'
            /\ ~GetIn(root, inners, leaves, last'.key).found)
          => UNCHANGED treeVars]_vars

(* C10: for well-formed keys a and b, Critbit(a, b) is -1 when they are the   *)
(* same bit string, (p << 1) | 1 for the first position p below both lengths  *)
(* at which they differ, and min(a.Nbits, b.Nbits) << 1 when the shorter is a *)
(* proper prefix of the longer, whichever argument is the shorter.            *)
C10_CritbitAsDocumented ==
    kres.op = "Critbit" => kres.ret = DocumentedCritbit(ka, kb)

\* the zero-length key
EmptyKey == BitsKey(<<>>, 0)

\* the entries of the plain map under a key of at least one bit that is a prefix of q
LongerPrefixEntries(sh, q) == {e \in PrefixEntries(sh, q) : e.key.Nbits > 0}

(* C11: while a zero-length key is stored with value d, it is the first leaf  *)
(* of a forward scan, and Longest(q) reports found for every q: d when no     *)
(* stored key of at least one bit is a prefix of q, and otherwise the value   *)
(* stored under such a prefix.                                                *)
C11_EmptyKeyBoundary ==
    \A d \in Values :
        [key |-> EmptyKey, val |-> d] \in shadow =>
            /\ KeysIn(root, inners, leaves) # <<>>
            /\ KeysIn(root, inners, leaves)[1] = EmptyKey
            /\ \A q \in WFKeys :
                  LET r == LongestIn(root, inners, leaves, q)
                  IN  /\ r.found
                      /\ LongerPrefixEntries(shadow, q) = {} => r.val = d
                      /\ LongerPrefixEntries(shadow, q) # {} =>
                            \E e \in LongerPrefixEntries(shadow, q) : r.val = e.val

\* the leaves a scanner over the root yields, in order
ScanLeaves(rt, inn, reverse) == scanAll(inn, NewScanner(rt, reverse))

\* a sequence back to front
Reversed(s) == [i \in 1..Len(s) |-> s[Len(s) + 1 - i]]

(* C14: the leaves a reverse scanner over the root yields are the leaves a    *)
(* forward scanner over the same root yields, in the opposite order.          *)
C14_ReverseIsReversed ==
    ScanLeaves(root, inners, TRUE) = Reversed(ScanLeaves(root, inners, FALSE))

\* a tree of three leaves, so of two Inners, has been scanned both ways
C14_Witness ==
    /\ nums = MaxLeaves
    /\ Len(ScanLeaves(root, inners, TRUE)) = MaxLeaves
    /\ ScanLeaves(root, inners, TRUE) # ScanLeaves(root, inners, FALSE)

(* C17: under child[d] of an Inner with critical bit c every leaf's key has   *)
(* Direction(key, c) = d; so the descent by a stored key's own Direction ends *)
(* at that key's leaf.                                                        *)
C17_RoutingConsistent ==
    /\ \A i \in ReachInners(inners, root) : \A d \in {0, 1} :
          \A l \in ReachLeaves(inners, Child(inners, i, d)) :
              Direction(leaves[l].Key, inners[i].bit) = d
    /\ \A l \in ReachLeaves(inners, root) : findLeaf(root, inners, leaves[l].Key) = l

(* C18: along every path from the root the critical bits of the Inners grow   *)
(* strictly: no Inner's bit is at or below the bit of an Inner above it.      *)
C18_BitsIncrease ==
    \A i \in ReachInners(inners, root) : \A d \in {0, 1} :
        Child(inners, i, d).Inner # Nil =>
            inners[Child(inners, i, d).Inner].bit > inners[i].bit

-----------------------------------------------------------------------------
(* The functions of Key, applied to keys that are valid but need not be      *)
(* well-formed: Data may be longer than Nbits needs, padding bits are free.  *)

\* the byte sequences of at most two bytes over KeyBytes
KeyDatas == {<<>>} \cup {<<x>> : x \in KeyBytes} \cup {<<x, y>> : x \in KeyBytes, y \in KeyBytes}

\* the valid keys of at most MaxBits bits over KeyDatas
AnyPureKeys ==
    {k \in {BitsKey(d, n) : d \in KeyDatas, n \in 0..MaxBits} : ValidKey(k)}

InitKeyAny ==
    /\ InitTree
    /\ wide = TRUE
    /\ ka \in AnyPureKeys
    /\ kb \in AnyPureKeys
    /\ kres = Applied("none", 0, 0)

SpecKeyAny == InitKeyAny /\ [][NextKey]_vars

(* C19: for all valid keys a and b, Critbit(a, b) is the identical sentinel   *)
(* -1 exactly when Equal(a, b) is true, so that Set's replace decision and    *)
(* the match decision of Get and Delete agree.                                *)
C19_IdenticalIffEqual ==
    kres.op = "Critbit" => (kres.ret = Identical <=> Equal(ka, kb))

\* the bit position an encoded ordinal stands for
OrdinalPos(bit) == bit \div 2

\* the ordinal is of the DATA_DIFF kind
IsDataDiff(bit) == bit % 2 = 1

(* C20: for a well-formed key and an ordinal of either kind, Direction is the *)
(* key's bit at the decoded position when the position is within the key's    *)
(* significant length, and 0 when it is at or beyond it.                      *)
C20_DirectionIsBit ==
    kres.op = "Direction" =>
        kres.ret = IF OrdinalPos(kres.arg) < ka.Nbits
                   THEN KeyBit(ka, OrdinalPos(kres.arg))
                   ELSE 0

(* C20, amended: for a well-formed key, Direction is 0 when the position is   *)
(* at or beyond the key's significant length; within it, Direction is the     *)
(* key's bit for a DATA_DIFF ordinal and 1, whatever the bit, for a           *)
(* LENGTH_DIFF ordinal.                                                       *)
C20_DirectionByKind ==
    kres.op = "Direction" =>
        kres.ret = IF OrdinalPos(kres.arg) >= ka.Nbits THEN 0
                   ELSE IF IsDataDiff(kres.arg) THEN KeyBit(ka, OrdinalPos(kres.arg))
                   ELSE 1

\* Direction has answered 1 for a LENGTH_DIFF ordinal at a position where the key holds 0
C20_Witness ==
    /\ kres.op = "Direction"
    /\ ~IsDataDiff(kres.arg)
    /\ OrdinalPos(kres.arg) < ka.Nbits
    /\ KeyBit(ka, OrdinalPos(kres.arg)) = 0
    /\ kres.ret = 1

-----------------------------------------------------------------------------
(* Claims on the Scanner and the iterators *)

\* no member of the sequence occurs twice
NoRepeats(s) == \A i, j \in 1..Len(s) : i # j => s[i] # s[j]

\* the members of a sequence
Members(s) == {s[i] : i \in 1..Len(s)}

(* C12: when keys the scanner has yielded are removed with Delete, the Scan   *)
(* calls that follow complete without error, return no leaf a second time,    *)
(* and return at most as many leaves as the root held when the scanner was    *)
(* made, so that nil is reached after finitely many calls, and stays.         *)
C12_ScannerIsolation ==
    (scan.live /\ ~scan.foreign) =>
        /\ ~panicked
        /\ NoRepeats(scan.out)
        /\ Len(scan.out) <= scan.total
        /\ scan.nils > 0 => scan.ret = Nil

\* a key was deleted after the scanner had yielded it, and the scan went on to its end
C12_Witness ==
    /\ scan.live /\ ~scan.foreign /\ scan.mutated
    /\ scan.total = MaxLeaves
    /\ scan.cut >= 1
    /\ Len(scan.out) > scan.cut
    /\ scan.nils > 0

(* C13: on a tree not written during the scan, the Scan calls return each     *)
(* leaf under the root exactly once, Len() leaves in all, and then nil; every *)
(* Scan after the first nil returns nil; over an empty tree the first Scan    *)
(* returns nil.                                                               *)
C13_ScanEachLeafOnce ==
    (scan.live /\ ~scan.mutated) =>
        /\ NoRepeats(scan.out)
        /\ Members(scan.out) \subseteq ReachLeaves(inners, root)
        /\ scan.nils > 0 =>
              /\ Members(scan.out) = ReachLeaves(inners, root)
              /\ Len(scan.out) = nums
              /\ scan.ret = Nil
        /\ root = EmptyNode => scan.out = <<>>

\* a scan of a full tree has returned every leaf and then nil as often as it was asked
C13_Witness ==
    /\ scan.live /\ ~scan.mutated
    /\ scan.nils = MaxNils
    /\ Len(scan.out) = MaxLeaves

\* the first stop members of a sequence, all of them when stop = 0
Take(s, stop) == IF stop = 0 \/ stop >= Len(s) THEN s ELSE SubSeq(s, 1, stop)

\* what an iterator hands to the consumer for a leaf
ItemOf(op, leaf) ==
    CASE op = "Keys"   -> leaf.Key
      [] op = "Values" -> leaf.Value
      [] op = "All"    -> <<leaf.Key, leaf.Value>>

(* C15: Keys, Values and All yield the keys, values and pairs of the leaves a *)
(* forward Scanner over the root yields, in its order, and nothing after the  *)
(* consumer has returned false; each iteration starts from the first entry.   *)
C15_IteratorsFollowScanner ==
    last.op \in {"Keys", "Values", "All"} =>
        LET ls == ScanLeaves(root, inners, FALSE)
        IN  last.val = Take([i \in 1..Len(ls) |-> ItemOf(last.op, leaves[ls[i]])],
                            last.value)

\* an iteration over a full tree was broken off at its MaxStop-th pair
C15_Witness ==
    /\ last.op = "All"
    /\ last.value = MaxStop
    /\ nums = MaxLeaves
    /\ Len(last.val) = MaxStop
    /\ last.val[1][2] # last.val[2][2]

\* the calls that read
ReadOps == {"Get", "Longest", "Len", "NewScanner", "Scan", "Keys", "Values", "All"}

(* C16: Get, Longest, Len, NewScanner, Scan and ranging over Keys, Values and *)
(* All leave the root, the nodes, the stored keys and values and Len() as     *)
(* they were.                                                                 *)
C16_ReadsLeaveTree == [][last'.op \in ReadOps => UNCHANGED treeVars]_vars

\* a Longest has found a value in a full tree
C16_Witness ==
    /\ last.op = "Longest"
    /\ last.found
    /\ nums = MaxLeaves
    /\ inners # <<>>

-----------------------------------------------------------------------------
(* Set and Delete as functions of the tree: what a call leaves, or that it    *)
(* panicked, so that two sequences of calls on one tree can be compared       *)

\* the call returned and left the tree as t
Done(t) == [t |-> t, panic |-> FALSE]

\* the call panicked; the tree is as the call found it
Panicked(t) == [t |-> t, panic |-> TRUE]

\* Tree.Set on tree t
SetIn(t, key, value) ==
    IF WalkPanics(t.root, t.inners, RootSlot, key) THEN Panicked(t)
    ELSE LET leaf == findLeaf(t.root, t.inners, key)
         IN  IF leaf = Nil THEN Done(SetFirst(t, key, value))
             ELSE LET bit == Critbit(t.leaves[leaf].Key, key)
                  IN  IF bit = IndexPanic THEN Panicked(t)
                      ELSE IF bit = Identical THEN Done(SetReplace(t, leaf, value))
                      ELSE Done(SetInsert(t, key, value, bit))

\* Tree.Delete on tree t
DeleteIn(t, key) ==
    IF WalkPanics(t.root, t.inners, RootSlot, key) THEN Panicked(t)
    ELSE LET n    == WalkSlot(t.root, t.inners, RootSlot, key)
             p    == ParentSlot(t.root, t.inners, RootSlot, key)
             leaf == Deref(t.root, t.inners, n).Leaf
         IN  IF leaf = Nil THEN Done(t)
             ELSE IF ~leafMatches(t.leaves[leaf].Key, key) THEN Done(t)
             ELSE Done(deleteNode(t, p, n.dir))

\* the tree with its heaps collected: the objects the root reaches, in walk order
Collected(t) ==
    LET io == InnerOrder(t.inners, t.root)
        lo == LeafOrder(t.inners, t.root)
    IN  TreeOf(RenamedNode(io, lo, t.root), t.nums,
               CollectInners(io, lo, t.inners), CollectLeaves(lo, t.leaves))

\* the steps Set and Delete leave the tree their functions give
CallsAgree ==
    [][IF last'.op = "Set"
       THEN LET r == SetIn(Tree, last'.key, last'.value)
            IN  panicked' = r.panic /\ Tree' = Collected(r.t)
       ELSE IF last'.op = "Delete"
       THEN LET d == DeleteIn(Tree, last'.key)
            IN  panicked' = d.panic /\ Tree' = Collected(d.t)
       ELSE TRUE]_vars

(* Claims on the algebra of Critbit, Set and Delete *)

(* C21: Critbit is symmetric: for well-formed keys a and b, Critbit(a, b) is  *)
(* Critbit(b, a), also when both keys end in the same byte and differ in      *)
(* length.                                                                    *)
C21_CritbitSymmetric ==
    kres.op = "Critbit" => kres.ret = Critbit(kb, ka)

\* Set(a, x) and then, unless it panicked, Set(b, y)
SetSet(t, a, x, b, y) ==
    LET r == SetIn(t, a, x)
    IN  IF r.panic THEN r ELSE SetIn(r.t, b, y)

\* what Len, a forward scan, Get and Longest report of tree t
Observed(t) ==
    [len     |-> t.nums,
     scan    |-> LET ls == ScanLeaves(t.root, t.inners, FALSE)
                 IN  [i \in 1..Len(ls) |-> t.leaves[ls[i]]],
     get     |-> [k \in WFKeys |-> GetIn(t.root, t.inners, t.leaves, k)],
     longest |-> [k \in WFKeys |->
                     IF LongestPanics(t.inners, t.leaves, t.root, k)
                     THEN [val |-> ZeroV, found |-> FALSE, panic |-> TRUE]
                     ELSE LongestIn(t.root, t.inners, t.leaves, k)]]

(* C22: from any reachable tree, for distinct well-formed keys a and b,       *)
(* Set(a, x); Set(b, y) and Set(b, y); Set(a, x) both complete and leave      *)
(* trees with the same Len(), the same forward scan and the same result of    *)
(* Get and of Longest for every key.                                          *)
C22_OrderIndependent ==
    \A a, b \in WFKeys : \A x, y \in Values :
        a # b =>
            LET ab == SetSet(Tree, a, x, b, y)
                ba == SetSet(Tree, b, y, a, x)
            IN  /\ ~ab.panic
                /\ ~ba.panic
                /\ Observed(ab.t) = Observed(ba.t)

-----------------------------------------------------------------------------
(* Claims on the shape of the tree *)

\* a Node is a Leaf or an Inner, not both
OneOf(n) == n.Leaf = Nil \/ n.Inner = Nil

(* C23: every Node has at most one of Leaf and Inner set; the root is the     *)
(* empty Node exactly when Len() is 0; both children of every Inner are       *)
(* non-empty; a tree of n >= 1 leaves has exactly n - 1 Inners.               *)
C23_NodeShape ==
    /\ OneOf(root)
    /\ root = EmptyNode <=> nums = 0
    /\ \A i \in ReachInners(inners, root) : \A d \in {0, 1} :
          /\ OneOf(Child(inners, i, d))
          /\ Child(inners, i, d) # EmptyNode
    /\ Cardinality(ReachLeaves(inners, root)) >= 1 =>
          Cardinality(ReachInners(inners, root))
              = Cardinality(ReachLeaves(inners, root)) - 1

\* a Delete has taken a leaf and its parent Inner out of a full tree
C23_Witness ==
    /\ last.op = "Delete" /\ last.found
    /\ nums = MaxLeaves - 1
    /\ Len(inners) = MaxLeaves - 2
    /\ root.Inner # Nil

(* C24: in every state Set and Delete reach, the counter Len() returns is the *)
(* number of Leaf objects reachable from the root, 0 for the empty root,      *)
(* whether or not the leaves carry distinct keys.                             *)
C24_LenCountsLeaves == nums = Cardinality(ReachLeaves(inners, root))

\* a Delete has left a tree in which two leaves carry the same key
C24_Witness ==
    /\ last.op = "Delete" /\ last.found
    /\ nums >= 2
    /\ Cardinality(StoredKeys(root, inners, leaves)) < nums

-----------------------------------------------------------------------------
(* HasPrefix, applied to valid keys of up to MaxKeyBits bits *)

\* the valid keys of at most MaxKeyBits bits over KeyDatas
ValidPureKeys ==
    {k \in {BitsKey(d, n) : d \in KeyDatas, n \in 0..MaxKeyBits} : ValidKey(k)}

InitPrefix ==
    /\ InitTree
    /\ wide = TRUE
    /\ ka \in ValidPureKeys
    /\ kb \in ValidPureKeys
    /\ kres = Applied("none", 0, 0)

SpecPrefix == InitPrefix /\ [][HasPrefixStep]_vars

(* C25: for valid keys k and p, HasPrefix(k, p) is true exactly when p is not *)
(* longer than k and the first p.Nbits bits of k are those of p; no bit of    *)
(* either key beyond p.Nbits counts, so every key has itself and every        *)
(* zero-length key as a prefix.                                               *)
C25_HasPrefixIsBitPrefix ==
    kres.op = "HasPrefix" => kres.ret = IF IsPrefix(kb, ka) THEN 1 ELSE 0

\* p ends inside the second byte and is a prefix of a longer k that differs from it beyond p's last bit
C25_Witness ==
    /\ kres.op = "HasPrefix"
    /\ kres.ret = 1
    /\ kb.Nbits > 8 /\ kb.Nbits % 8 # 0
    /\ ka.Nbits > kb.Nbits
    /\ ByteAt(ka.Data, 1) # ByteAt(kb.Data, 1)

(* C27: for a well-formed key k that Get(k) does not find, Set(k, v) followed *)
(* at once by Delete(k) leaves the tree as it was before the Set: the same    *)
(* Len(), the same Inners with the same critical bits and children, the same  *)
(* entries.                                                                   *)
C27_SetDeleteRestores ==
    \A k \in WFKeys : \A v \in Values :
        ~GetIn(root, inners, leaves, k).found =>
            LET s == SetIn(Tree, k, v)
                d == DeleteIn(s.t, k)
            IN  /\ ~s.panic
                /\ ~d.panic
                /\ Collected(d.t) = Tree

-----------------------------------------------------------------------------
(* The Scanner while the tree is written *)

\* the leaves the scanner has yielded and those it would yield if scanned to its end now
WholeScan(inn, s) == s.out \o scanAll(inn, [dir |-> s.dir, stack |-> s.stack])

(* C26: with Set and Delete called in any order between the Scans, no leaf is *)
(* yielded twice, the scan comes to nil (what is left to yield is at every    *)
(* moment a finite list of leaves not yet yielded, and after the first nil    *)
(* every Scan returns nil), and by then every leaf that was in the tree when  *)
(* the scanner was made and is in it still has been yielded.                  *)
C26_ScanUnderWrites ==
    scan.live =>
        /\ NoRepeats(WholeScan(inners, scan))
        /\ scan.nils > 0 =>
              /\ scan.stack = <<>>
              /\ scan.ret = Nil
              /\ ReachLeaves(inners, root) \ scan.fresh \subseteq Members(scan.out)

\* a scan came to its end over a full tree that a Delete and a Set had written on its way
C26_Witness ==
    /\ scan.live /\ scan.nils > 0
    /\ scan.total = MaxLeaves
    /\ scan.writes = MaxWrites
    /\ scan.foreign
    /\ scan.fresh # {}
    /\ scan.cut >= 1
    /\ Len(scan.out) > scan.cut
    /\ ReachLeaves(inners, root) \ scan.fresh # {}

=============================================================================
